---- MODULE Spec2Model ----
(***************************************************************************)
(* A model of server.js: the reply finalizer (finalizeReply), the lead     *)
(* store (saveMatchLead, readMatchLeads), the match-lead and admin         *)
(* endpoints and the chat relay.                                           *)
(*                                                                         *)
(* JavaScript strings are sequences of one-character strings, so that      *)
(* trim, slice, lastIndexOf and the regular expressions are computed.      *)
(* Indices in the helpers named after JavaScript methods are 0-based as in *)
(* the source; TLA+ sequences are 1-based.                                 *)
(***************************************************************************)
EXTENDS Integers, Sequences, FiniteSets, TLC

VARIABLES
    \* ---- finalizeReply, applied to drawn inputs
    fpc,            \* "input" before the call, "done" after it
    text,           \* the argument text: a JavaScript value
    maxChars,       \* the argument maxChars
    maxSentences,   \* the argument maxSentences
    fin,            \* the locals of finalizeReply at its return
    \* ---- the lead store, POST /api/match-lead and the admin endpoints
    ADMIN_TOKEN,    \* process.env.ADMIN_TOKEN || "", fixed at process start
    doc,            \* the content of LEADS_FILE
    clock,          \* the server's time, read by new Date()
    req,            \* the requests in flight, by slot
    resp,           \* the response the server sent last
    started,        \* the number of requests received so far
    doc0,           \* history: the content of LEADS_FILE at process start
    version,        \* history: the number of writes of LEADS_FILE so far
    appended,       \* history: the leads whose append call succeeded
    overlap,        \* history: two append calls were in flight together
    failed,         \* history: an append call failed
    \* ---- POST /api/chat
    hits,           \* chatLimiter's count of the caller in the current window
    chat,           \* the chat request in flight
    cresp           \* the response POST /api/chat sent last

finalVars == <<fpc, text, maxChars, maxSentences, fin>>

storeVars == <<ADMIN_TOKEN, doc, clock, req, resp, started, doc0, version,
               appended, overlap, failed>>

chatVars == <<hits, chat, cresp>>

vars == <<finalVars, storeVars, chatVars>>

-----------------------------------------------------------------------------
(* Bounds of the model *)

\* Longest enumerated tail of an input text of finalizeReply.
MaxTail == 4

\* Requests the server handles at the same time.
NumSlots == 2

\* Requests the server receives in one behaviour.
MaxRequests == 3

\* Longest enumerated history of a chat request.
MaxHistory == 2

-----------------------------------------------------------------------------
(* Characters and JavaScript string helpers *)

Terminators == {".", "!", "?"}

\* The characters \s and trim() take for whitespace, among those the model
\* uses; "nbsp" stands for the one character U+00A0.
Whitespace == {" ", "\t", "\n", "nbsp"}

IsWs(c) == c \in Whitespace

IsStop(c) == c \in Terminators

\* The letters and digits (\p{L}, \p{N}) among the characters the model uses.
LettersDigits ==
    {"a", "b", "c", "e", "h", "i", "k", "o", "r", "t", "x", "y",
     "A", "B", "H", "1"}

\* String.prototype.toLowerCase on one character.
Lower(c) ==
    CASE c = "A" -> "a"
      [] c = "B" -> "b"
      [] c = "H" -> "h"
      [] OTHER -> c

toLowerCase(s) == [i \in 1..Len(s) |-> Lower(s[i])]

RECURSIVE SkipWsForward(_, _)
SkipWsForward(s, i) ==
    IF i > Len(s) \/ ~IsWs(s[i]) THEN i ELSE SkipWsForward(s, i + 1)

RECURSIVE SkipWsBackward(_, _)
SkipWsBackward(s, i) ==
    IF i < 1 \/ ~IsWs(s[i]) THEN i ELSE SkipWsBackward(s, i - 1)

\* String.prototype.trim
Trim(s) ==
    LET lo == SkipWsForward(s, 1)
        hi == SkipWsBackward(s, Len(s))
    IN  IF lo > hi THEN <<>> ELSE SubSeq(s, lo, hi)

\* s.replace(/\s+/g, " "): every maximal whitespace run becomes one space.
CollapseWs(s) ==
    LET marked == [i \in 1..Len(s) |->
                     IF ~IsWs(s[i]) THEN s[i]
                     ELSE IF i > 1 /\ IsWs(s[i - 1]) THEN "" ELSE " "]
    IN  SelectSeq(marked, LAMBDA c : c # "")

\* String.prototype.slice(0, end)
Slice0(s, end) ==
    LET e == IF end < 0 THEN (IF Len(s) + end < 0 THEN 0 ELSE Len(s) + end)
             ELSE IF end > Len(s) THEN Len(s) ELSE end
    IN  SubSeq(s, 1, e)

\* Array.prototype.slice(0, end)
ArraySlice0(a, end) == Slice0(a, end)

RECURSIVE LastStopFrom(_, _)
LastStopFrom(s, i) ==
    IF i < 1 THEN -1
    ELSE IF IsStop(s[i]) THEN i - 1
    ELSE LastStopFrom(s, i - 1)

\* Math.max(s.lastIndexOf("."), s.lastIndexOf("!"), s.lastIndexOf("?")):
\* the 0-based index of the right-most terminator, -1 without one.
LastStop(s) == LastStopFrom(s, Len(s))

\* /[.!?]$/.test(s)
EndsInStop(s) == Len(s) > 0 /\ IsStop(s[Len(s)])

RECURSIVE Join(_, _)
\* Array.prototype.join(" ")
Join(parts, i) ==
    IF i > Len(parts) THEN <<>>
    ELSE IF i = Len(parts) THEN parts[i]
    ELSE parts[i] \o <<" ">> \o Join(parts, i + 1)

-----------------------------------------------------------------------------
(* finalizeReply *)

StopThreshold == 40
DefaultMaxChars == 520
DefaultMaxSentences == 4

\* A JavaScript value: a string (val its characters) or a non-string.
Str(s) == [type |-> "string", val |-> s]
NonString(t) == [type |-> t, val |-> <<>>]

\* !text || typeof text !== "string"
NotText(v) == v.type # "string" \/ v.val = <<>>

\* text.replace(/\s+/g, " ").trim()
Normalize(s) == Trim(CollapseWs(s))

RECURSIVE FirstNonStop(_, _)
FirstNonStop(s, i) ==
    IF i > Len(s) \/ ~IsStop(s[i]) THEN i ELSE FirstNonStop(s, i + 1)

RECURSIVE FirstStop(_, _)
FirstStop(s, i) ==
    IF i > Len(s) \/ IsStop(s[i]) THEN i ELSE FirstStop(s, i + 1)

RECURSIVE MatchSentences(_, _)
\* The matches of /[^.!?]+[.!?]+/g in s from (1-based) position from.
MatchSentences(s, from) ==
    LET start == FirstNonStop(s, from)
        stop  == FirstStop(s, start)
        next  == FirstNonStop(s, stop)
    IN  IF start > Len(s) \/ stop > Len(s) THEN <<>>
        ELSE <<SubSeq(s, start, next - 1)>> \o MatchSentences(s, next)

\* normalized.match(/[^.!?]+[.!?]+/g) || []
SentenceParts(normalized) == MatchSentences(normalized, 1)

\* sentence.toLowerCase().replace(/[^\p{L}\p{N}\s]/gu, "")
\*         .replace(/\s+/g, " ").trim()
SentenceKey(sentence) ==
    Trim(CollapseWs(SelectSeq(toLowerCase(sentence),
                              LAMBDA c : c \in LettersDigits \/ IsWs(c))))

RECURSIVE UniqueLoopNoSeen(_, _, _)
UniqueLoopNoSeen(parts, i, acc) ==
    IF i > Len(parts) THEN acc
    ELSE IF SentenceKey(parts[i]) = <<>>
         THEN UniqueLoopNoSeen(parts, i + 1, acc)
         ELSE UniqueLoopNoSeen(parts, i + 1, Append(acc, Trim(parts[i])))

\* Mutant of UniqueSentences: the seen set is never consulted.
UniqueSentencesNoSeen(parts) == UniqueLoopNoSeen(parts, 1, <<>>)

RECURSIVE UniqueLoop(_, _, _, _)
UniqueLoop(parts, i, seen, acc) ==
    IF i > Len(parts) THEN acc
    ELSE LET key == SentenceKey(parts[i])
         IN  IF key = <<>> \/ key \in seen
             THEN UniqueLoop(parts, i + 1, seen, acc)
             ELSE UniqueLoop(parts, i + 1, seen \cup {key},
                             Append(acc, Trim(parts[i])))

\* The loop over sentenceParts that fills uniqueSentences.
UniqueSentences(parts) == UniqueLoop(parts, 1, {}, <<>>)

\* The candidate after sentence selection.
SelectCandidate(normalized, unique, ms) ==
    IF Len(unique) > 0 THEN Trim(Join(ArraySlice0(unique, ms), 1))
    ELSE normalized

\* Mutant of Truncate: the slice is one character too long.
TruncateOffByOne(candidate, mc) ==
    IF Len(candidate) > mc
    THEN LET short == Slice0(candidate, mc + 1)
             lastStop == LastStop(short)
         IN  Trim(IF lastStop > StopThreshold
                  THEN Slice0(short, lastStop + 1) ELSE short)
    ELSE candidate

\* if (candidate.length > maxChars) { ... }
Truncate(candidate, mc) ==
    IF Len(candidate) > mc
    THEN LET short == Slice0(candidate, mc)
             lastStop == LastStop(short)
         IN  Trim(IF lastStop > StopThreshold
                  THEN Slice0(short, lastStop + 1) ELSE short)
    ELSE candidate

\* Mutant of Terminate: nothing is appended when no terminator is found.
TerminateNoAppend(candidate) ==
    IF ~EndsInStop(candidate)
    THEN LET lastStop == LastStop(candidate)
         IN  Trim(IF lastStop > 0
                  THEN Slice0(candidate, lastStop + 1)
                  ELSE candidate)
    ELSE candidate

\* if (!/[.!?]$/.test(candidate)) { ... }
Terminate(candidate) ==
    IF ~EndsInStop(candidate)
    THEN LET lastStop == LastStop(candidate)
         IN  Trim(IF lastStop > 0
                  THEN Slice0(candidate, lastStop + 1)
                  ELSE candidate \o <<".">>)
    ELSE candidate

NoLocals ==
    [normalized |-> <<>>, sentenceParts |-> <<>>, uniqueSentences |-> <<>>,
     selected |-> <<>>, truncated |-> <<>>, reply |-> <<>>]

\* The locals of finalizeReply(v, mc, ms) at its return.
FinalizeLocals(v, mc, ms) ==
    IF NotText(v) THEN NoLocals
    ELSE LET normalized == Normalize(v.val)
         IN  IF normalized = <<>> THEN NoLocals
             ELSE LET parts     == SentenceParts(normalized)
                      unique    == UniqueSentences(parts)
                      selected  == SelectCandidate(normalized, unique, ms)
                      truncated == Truncate(selected, mc)
                  IN  [normalized |-> normalized,
                       sentenceParts |-> parts,
                       uniqueSentences |-> unique,
                       selected |-> selected,
                       truncated |-> truncated,
                       reply |-> Terminate(truncated)]

finalizeReply(v, mc, ms) == FinalizeLocals(v, mc, ms).reply

-----------------------------------------------------------------------------
(* JavaScript values of request bodies and of the JSON document *)

Undefined == NonString("undefined")
Null == NonString("null")
NaN == NonString("NaN")
\* A finite number that is not an integer, such as 2.5.
Fraction == NonString("fraction")
Bool(b) == [type |-> "boolean", val |-> b]
Num(n) == [type |-> "number", val |-> n]
Obj(r) == [type |-> "object", val |-> r]

\* Boolean(v), and the truthiness || tests
Truthy(v) ==
    CASE v.type \in {"undefined", "null", "NaN"} -> FALSE
      [] v.type = "string" -> v.val # <<>>
      [] v.type = "boolean" -> v.val
      [] v.type = "number" -> v.val # 0
      [] OTHER -> TRUE

\* v || d
OrElse(v, d) == IF Truthy(v) THEN v ELSE d

Digits == <<"0", "1", "2", "3", "4", "5", "6", "7", "8", "9">>

DigitChars == {Digits[i] : i \in 1..Len(Digits)}

DigitValue(c) == (CHOOSE i \in 1..Len(Digits) : Digits[i] = c) - 1

RECURSIVE ParseDigits(_, _, _)
ParseDigits(s, i, acc) ==
    IF i > Len(s) THEN acc
    ELSE ParseDigits(s, i + 1, 10 * acc + DigitValue(s[i]))

\* Number(v): a number, NaN or a non-integer.
ToNumber(v) ==
    CASE v.type \in {"number", "NaN", "fraction"} -> v
      [] v.type = "null" -> Num(0)
      [] v.type = "boolean" -> Num(IF v.val THEN 1 ELSE 0)
      [] v.type = "string" ->
            LET t == Trim(v.val)
            IN  IF \A i \in 1..Len(t) : t[i] \in DigitChars
                THEN Num(ParseDigits(t, 1, 0)) ELSE NaN
      [] OTHER -> NaN

\* Number.isInteger(n)
IsInteger(n) == n.type = "number"

\* String(v) for the values String() is applied to
StringOf(v) ==
    CASE v.type = "string" -> v.val
      [] v.type = "number" /\ v.val \in 0..9 -> <<Digits[v.val + 1]>>
      [] v.type = "boolean" ->
            IF v.val THEN <<"t", "r", "u", "e">>
            ELSE <<"f", "a", "l", "s", "e">>
      [] OTHER -> <<"o", "b", "j", "e", "c", "t">>

\* JSON.parse(JSON.stringify(n)) of a number: NaN is written as null.
JsonNumber(n) == IF n.type = "NaN" THEN Null ELSE n

\* JSON.parse(JSON.stringify(lead))
JsonLead(lead) ==
    [f \in DOMAIN lead |->
        IF f \in {"score", "percentage"} THEN JsonNumber(lead[f]) ELSE lead[f]]

-----------------------------------------------------------------------------
(* The lead store *)

\* The content of LEADS_FILE: absent, a JSON array, a JSON value that is no
\* array, or text JSON.parse rejects.
Absent == [state |-> "absent", leads |-> <<>>]
ArrayDoc(leads) == [state |-> "array", leads |-> leads]
ObjectDoc == [state |-> "object", leads |-> <<>>]
Corrupt == [state |-> "corrupt", leads |-> <<>>]

\* The outcome of `await fs.readFile` followed by JSON.parse in
\* saveMatchLead: the array leads starts from, or a thrown error.
ReadForAppend(d) ==
    CASE d.state = "absent" -> [ok |-> TRUE, leads |-> <<>>]
      [] d.state = "array" -> [ok |-> TRUE, leads |-> d.leads]
      [] d.state = "object" -> [ok |-> TRUE, leads |-> <<>>]
      [] OTHER -> [ok |-> FALSE, leads |-> <<>>]

\* leads.push(lead)
PushLead(leads, lead) == Append(leads, lead)

\* JSON.stringify(leads, null, 2) as written to LEADS_FILE
WrittenDoc(leads) == ArrayDoc([i \in 1..Len(leads) |-> JsonLead(leads[i])])

\* String(lead.createdAt || "")
CreatedKey(lead) ==
    IF "createdAt" \in DOMAIN lead THEN lead.createdAt ELSE <<>>

RECURSIVE CompareFrom(_, _, _)
CompareFrom(a, b, i) ==
    IF i > Len(a) /\ i > Len(b) THEN 0
    ELSE IF i > Len(a) THEN -1
    ELSE IF i > Len(b) THEN 1
    ELSE IF DigitValue(a[i]) < DigitValue(b[i]) THEN -1
    ELSE IF DigitValue(a[i]) > DigitValue(b[i]) THEN 1
    ELSE CompareFrom(a, b, i + 1)

\* a.localeCompare(b) on strings of digits
localeCompare(a, b) == CompareFrom(a, b, 1)

\* (a, b) => String(b.createdAt || "").localeCompare(String(a.createdAt || ""))
CompareLeads(a, b) == localeCompare(CreatedKey(b), CreatedKey(a))

RECURSIVE InsertStable(_, _, _)
\* x placed after the last element of sorted that does not compare after it.
InsertStable(sorted, x, i) ==
    IF i = 0 \/ CompareLeads(sorted[i], x) <= 0
    THEN SubSeq(sorted, 1, i) \o <<x>> \o SubSeq(sorted, i + 1, Len(sorted))
    ELSE InsertStable(sorted, x, i - 1)

RECURSIVE SortFrom(_, _, _)
SortFrom(arr, i, acc) ==
    IF i > Len(arr) THEN acc
    ELSE SortFrom(arr, i + 1, InsertStable(acc, arr[i], Len(acc)))

\* Array.prototype.sort with CompareLeads (a stable sort)
SortLeads(arr) == SortFrom(arr, 1, <<>>)

\* readMatchLeads on the content d of LEADS_FILE: the leads, or a thrown error.
readMatchLeads(d) ==
    CASE d.state = "absent" -> [ok |-> TRUE, leads |-> <<>>]
      [] d.state = "array" -> [ok |-> TRUE, leads |-> SortLeads(d.leads)]
      [] d.state = "object" -> [ok |-> TRUE, leads |-> <<>>]
      [] OTHER -> [ok |-> FALSE, leads |-> <<>>]

\* Mutant of isAdminAuthorized: an empty configured secret is accepted.
isAdminAuthorizedEmptySecret(header) ==
    Trim(StringOf(OrElse(header, Str(<<>>)))) = ADMIN_TOKEN

\* isAdminAuthorized(req), header the value of req.headers["x-admin-token"]
isAdminAuthorized(header) ==
    LET token == Trim(StringOf(OrElse(header, Str(<<>>))))
    IN  ADMIN_TOKEN # <<>> /\ token = ADMIN_TOKEN

-----------------------------------------------------------------------------
(* POST /api/match-lead *)

\* /^[^\s@]+@[^\s@]+\.[^\s@]+$/.test(email)
EmailOk(email) ==
    \E at \in 2..Len(email), dot \in 1..(Len(email) - 1) :
        /\ email[at] = "@"
        /\ email[dot] = "."
        /\ dot >= at + 2
        /\ \A i \in (1..Len(email)) \ {at} : email[i] # "@" /\ ~IsWs(email[i])

AnswerKeys == {"q1", "q2", "q3", "q4"}

\* req.body?.answers || {}, as the values of its keys q1..q4
AnswersOf(body) ==
    IF Truthy(body.answers) THEN body.answers.val
    ELSE [k \in AnswerKeys |-> Undefined]

\* The test of one answer in validAnswers
AnswerOk(value) ==
    LET n == ToNumber(value)
    IN  IsInteger(n) /\ n.val >= 1 /\ n.val <= 5

\* Mutant of ValidAnswers: the lower bound is not tested.
ValidAnswersNoLowerBound(answers) ==
    \A k \in AnswerKeys :
        LET n == ToNumber(answers[k]) IN IsInteger(n) /\ n.val <= 5

\* ["q1","q2","q3","q4"].every(...)
ValidAnswers(answers) == \A k \in AnswerKeys : AnswerOk(answers[k])

\* new Date().toISOString(): fixed width, zero padded, so that the order of
\* the strings is the order of the times.
toISOString(t) == <<Digits[(t \div 10) + 1], Digits[(t % 10) + 1]>>

\* The fields the handler derives from the request body.
LeadFields(body) ==
    [email |-> toLowerCase(Trim(StringOf(OrElse(body.email, Str(<<>>))))),
     consent |-> Truthy(body.consent),
     answers |-> AnswersOf(body),
     score |-> ToNumber(OrElse(body.score, Num(0))),
     percentage |-> ToNumber(OrElse(body.percentage, Num(0)))]

\* The status of the validation: 0 when the request passes.
ValidationStatus(body) ==
    LET f == LeadFields(body)
    IN  IF ~EmailOk(f.email) THEN 400
        ELSE IF ~f.consent THEN 400
        ELSE IF ~ValidAnswers(f.answers) THEN 400
        ELSE 0

\* The error text of the 400 response.
ValidationError(body) ==
    LET f == LeadFields(body)
    IN  IF ~EmailOk(f.email) THEN "Ogiltig e-postadress."
        ELSE IF ~f.consent THEN "Samtycke kravs."
        ELSE "Ofullstandiga svar."

\* The object passed to saveMatchLead at time now.
NewLead(body, now) ==
    LET f == LeadFields(body)
    IN  [email |-> f.email,
         consent |-> f.consent,
         answers |-> [k \in AnswerKeys |-> ToNumber(f.answers[k]).val],
         score |-> f.score,
         percentage |-> f.percentage,
         createdAt |-> toISOString(now),
         source |-> "match-form"]

Slots == 1..NumSlots

Idle == [pc |-> "idle"]

\* A saveMatchLead call is in flight in slot s.
Appending(s) == req[s].pc \in {"read", "write"}

-----------------------------------------------------------------------------
(* The requests the endpoints receive *)

EmailK == <<"k", "@", "b", ".", "c">>

\* " A@b.c ", which the handler trims and lowercases to "a@b.c"
EmailMessy == <<" ", "A", "@", "b", ".", "c", " ">>

\* "not-an-email"
EmailNone == <<"n", "o", "t", "-", "a", "n", "-", "e", "m", "a", "i", "l">>

AnsGood ==
    Obj([q1 |-> Num(1), q2 |-> Num(5), q3 |-> Num(3), q4 |-> Num(3)])

\* Answers Number() coerces to integers in [1,5].
AnsCoerced ==
    Obj([q1 |-> Str(<<"3">>), q2 |-> Bool(TRUE), q3 |-> Num(2),
         q4 |-> Str(<<" ", "4">>)])

AnsZero ==
    Obj([q1 |-> Num(5), q2 |-> Num(0), q3 |-> Num(3), q4 |-> Num(3)])

AnsSix ==
    Obj([q1 |-> Num(5), q2 |-> Num(1), q3 |-> Num(3), q4 |-> Num(6)])

AnsFraction ==
    Obj([q1 |-> Num(5), q2 |-> Num(1), q3 |-> Fraction, q4 |-> Num(3)])

BodyPlain ==
    [email |-> Str(EmailK), consent |-> Bool(TRUE), answers |-> AnsGood,
     score |-> Num(7), percentage |-> Num(9), createdAt |-> Undefined]

\* A valid request whose every field is changed by the handler's coercions,
\* and which brings a createdAt of its own.
BodyMessy ==
    [email |-> Str(EmailMessy), consent |-> Str(<<"y", "e", "s">>),
     answers |-> AnsCoerced, score |-> Undefined, percentage |-> Undefined,
     createdAt |-> Str(<<"9", "9">>)]

\* A valid request whose score is no number.
BodyTextScore == [BodyPlain EXCEPT !.score = Str(<<"a", "b", "c">>)]

ValidBodies == {BodyPlain, BodyMessy, BodyTextScore}

\* Requests the validation rejects: each differs from a valid one in the
\* field named, the last in all three.
InvalidBodies ==
    {[BodyPlain EXCEPT !.email = Str(EmailNone)],
     [BodyPlain EXCEPT !.consent = Bool(FALSE)],
     [BodyPlain EXCEPT !.consent = Undefined],
     [BodyPlain EXCEPT !.answers = AnsZero],
     [BodyPlain EXCEPT !.answers = AnsFraction],
     [BodyMessy EXCEPT !.email = Undefined, !.consent = Bool(FALSE),
                       !.answers = AnsSix]}

Bodies == ValidBodies \cup InvalidBodies

SecretK == <<"k">>

\* A configured secret that ends in a no-break space.
SecretSpace == <<"k", "nbsp">>

AdminTokens == {<<>>, SecretK, SecretSpace}

\* The values of req.headers["x-admin-token"]
Headers ==
    {Undefined, Str(<<>>), Str(SecretK), Str(SecretSpace),
     Str(<<"nbsp", "k">>), Str(<<"x">>)}

Endpoints == {"leads", "leads.csv"}

\* Leads found in LEADS_FILE at process start.
StoredValid ==
    [email |-> <<"o", "@", "b", ".", "c">>, consent |-> TRUE,
     answers |-> [k \in AnswerKeys |-> 2], score |-> Num(3),
     percentage |-> Num(4), createdAt |-> <<"0", "5">>,
     source |-> "match-form"]

\* A record without createdAt, and one whose createdAt is empty.
StoredUndated == [email |-> <<"u", "@", "b", ".", "c">>]

StoredBlankDate == [email |-> <<"e", "@", "b", ".", "c">>, createdAt |-> <<>>]

InitDocs ==
    {Absent, ObjectDoc, ArrayDoc(<<StoredValid>>),
     ArrayDoc(<<StoredUndated, StoredValid, StoredBlankDate>>)}

-----------------------------------------------------------------------------
(* POST /api/match-lead and saveMatchLead *)

\* The response the server sent last.
Response(kind, input, status, out, fileRead) ==
    [kind |-> kind, input |-> input, status |-> status, out |-> out,
     fileRead |-> fileRead]

NoResponse == Response("none", Undefined, 0, [ok |-> FALSE], FALSE)

\* The catch block of the handler: 500.
LeadFailed(body) ==
    Response("lead", body, 500,
             [error |-> "Kunde inte spara lead just nu."], FALSE)

\* The handler up to the await of fs.readFile: validation, the 400
\* responses, the lead object, the call of saveMatchLead and its fs.mkdir
\* (which touches no state of the model: mkdirOk is whether it succeeded).
LeadRequest(s, body, dt, mkdirOk) ==
    /\ req[s].pc = "idle"
    /\ started < MaxRequests
    /\ started' = started + 1
    /\ clock' = clock + dt
    /\ IF ValidationStatus(body) # 0
       THEN /\ resp' = Response("lead", body, ValidationStatus(body),
                                [error |-> ValidationError(body)], FALSE)
            /\ UNCHANGED <<req, overlap, failed>>
       ELSE IF ~mkdirOk
       THEN /\ resp' = LeadFailed(body)
            /\ failed' = TRUE
            /\ UNCHANGED <<req, overlap>>
       ELSE /\ req' = [req EXCEPT ![s] =
                          [pc |-> "read", input |-> body,
                           lead |-> NewLead(body, clock')]]
            /\ overlap' = (overlap \/ \E t \in Slots \ {s} : Appending(t))
            /\ UNCHANGED <<resp, failed>>
    /\ UNCHANGED <<ADMIN_TOKEN, doc, doc0, version, appended>>
    /\ UNCHANGED <<finalVars, chatVars>>

\* await fs.readFile settles; JSON.parse, leads.push(lead) and the call of
\* fs.writeFile follow without another await.
LeadRead(s, ioOk) ==
    /\ req[s].pc = "read"
    /\ LET r == ReadForAppend(doc)
       IN  IF ioOk /\ r.ok
           THEN /\ req' = [req EXCEPT ![s] =
                              [pc |-> "write", input |-> req[s].input,
                               lead |-> req[s].lead,
                               leads |-> PushLead(r.leads, req[s].lead),
                               snapshot |-> r.leads,
                               readVersion |-> version]]
                /\ UNCHANGED <<resp, failed>>
           ELSE /\ req' = [req EXCEPT ![s] = Idle]
                /\ resp' = LeadFailed(req[s].input)
                /\ failed' = TRUE
    /\ UNCHANGED <<ADMIN_TOKEN, doc, clock, started, doc0, version, appended,
                   overlap>>
    /\ UNCHANGED <<finalVars, chatVars>>

\* Mutant of LeadsToWrite: the lead is pushed onto what the file holds when
\* the write is made, as a store that serializes its appends would.
LeadsToWriteFresh(leads, lead, current) ==
    PushLead(ReadForAppend(current).leads, lead)

\* The array saveMatchLead hands to JSON.stringify: its local leads, whatever
\* the file (current) holds by now.
LeadsToWrite(leads, lead, current) == leads

WriteOutcomes == {"written", "refused", "cut"}

\* await fs.writeFile settles: the file holds the whole new document and the
\* handler answers {ok: true}, or the write fails (leaving the file as it
\* was, or cut short) and the handler answers 500.
LeadWrite(s, outcome) ==
    /\ req[s].pc = "write"
    /\ req' = [req EXCEPT ![s] = Idle]
    /\ CASE outcome = "written" ->
              /\ doc' = WrittenDoc(LeadsToWrite(req[s].leads, req[s].lead, doc))
              /\ version' = version + 1
              /\ appended' = Append(appended,
                                    [lead |-> req[s].lead,
                                     snapshot |-> req[s].snapshot,
                                     readVersion |-> req[s].readVersion,
                                     writeVersion |-> version + 1])
              /\ resp' = Response("lead", req[s].input, 200, [ok |-> TRUE],
                                  FALSE)
              /\ UNCHANGED failed
         [] outcome = "refused" ->
              /\ resp' = LeadFailed(req[s].input)
              /\ failed' = TRUE
              /\ UNCHANGED <<doc, version, appended>>
         [] OTHER ->
              /\ doc' = Corrupt
              /\ version' = version + 1
              /\ resp' = LeadFailed(req[s].input)
              /\ failed' = TRUE
              /\ UNCHANGED appended
    /\ UNCHANGED <<ADMIN_TOKEN, clock, started, doc0, overlap>>
    /\ UNCHANGED <<finalVars, chatVars>>

-----------------------------------------------------------------------------
(* GET /api/admin/leads and GET /api/admin/leads.csv *)

RECURSIVE CsvEscape(_, _)
\* s.replace(/"/g, '""')
CsvEscape(s, i) ==
    IF i > Len(s) THEN <<>>
    ELSE (IF s[i] = "\"" THEN <<"\"", "\"">> ELSE <<s[i]>>)
            \o CsvEscape(s, i + 1)

\* lead[f] || d
FieldOr(lead, f, d) ==
    IF f \in DOMAIN lead /\ Truthy(lead[f]) THEN lead[f] ELSE d

\* Number(lead.answers?.[k] || 0)
AnswerOr0(lead, k) ==
    IF "answers" \in DOMAIN lead THEN lead.answers[k] ELSE 0

\* One row of the CSV export.
CsvRow(lead) ==
    [email |-> CsvEscape(IF "email" \in DOMAIN lead THEN lead.email ELSE <<>>, 1),
     score |-> ToNumber(FieldOr(lead, "score", Num(0))),
     percentage |-> ToNumber(FieldOr(lead, "percentage", Num(0))),
     createdAt |-> CsvEscape(CreatedKey(lead), 1),
     answers |-> [k \in AnswerKeys |-> AnswerOr0(lead, k)]]

CsvHeader == "email,score,percentage,createdAt,q1,q2,q3,q4"

\* The body of the 200 response of an admin endpoint.
AdminBody(endpoint, leads) ==
    IF endpoint = "leads"
    THEN [leads |-> leads, count |-> Len(leads)]
    ELSE [header |-> CsvHeader,
          rows |-> [i \in 1..Len(leads) |-> CsvRow(leads[i])]]

\* The handler up to its first await: the authorization check, the 401
\* response, or the call of readMatchLeads, which awaits fs.readFile.
AdminRequest(s, endpoint, header) ==
    /\ req[s].pc = "idle"
    /\ started < MaxRequests
    /\ started' = started + 1
    /\ IF ~isAdminAuthorized(header)
       THEN /\ resp' = Response(endpoint, header, 401,
                                [error |-> "Unauthorized"], FALSE)
            /\ UNCHANGED req
       ELSE /\ req' = [req EXCEPT ![s] =
                          [pc |-> "adminread", kind |-> endpoint,
                           input |-> header]]
            /\ UNCHANGED resp
    /\ UNCHANGED <<ADMIN_TOKEN, doc, clock, doc0, version, appended, overlap,
                   failed>>
    /\ UNCHANGED <<finalVars, chatVars>>

\* await fs.readFile settles in readMatchLeads; the handler answers.
AdminRead(s, ioOk) ==
    /\ req[s].pc = "adminread"
    /\ req' = [req EXCEPT ![s] = Idle]
    /\ LET r == readMatchLeads(doc)
       IN  resp' = IF ioOk /\ r.ok
                   THEN Response(req[s].kind, req[s].input, 200,
                                 AdminBody(req[s].kind, r.leads), TRUE)
                   ELSE Response(req[s].kind, req[s].input, 500,
                                 [error |-> "Kunde inte lasa leads just nu."],
                                 TRUE)
    /\ UNCHANGED <<ADMIN_TOKEN, doc, clock, started, doc0, version, appended,
                   overlap, failed>>
    /\ UNCHANGED <<finalVars, chatVars>>

-----------------------------------------------------------------------------
(* POST /api/chat *)

RateMax == 30
HistoryCap == 12
ContentCap == 800

Arr(items) == [type |-> "array", val |-> items]

\* The contents of SYSTEM_PROMPT and KNOWLEDGE_BLOCK, each as one symbol.
SystemMessages ==
    << [role |-> "system", content |-> <<"SYSTEM_PROMPT">>],
       [role |-> "system", content |-> <<"KNOWLEDGE_BLOCK">>] >>

\* (req.body.message || req.body.prompt || req.body.text)?.trim(), the
\* empty string standing for every falsy result
MessageOf(body) ==
    LET first == OrElse(body.message, OrElse(body.prompt, body.text))
    IN  IF Truthy(first) THEN Trim(first.val) ELSE <<>>

\* The test of one history entry in incomingHistory.every(...)
ItemOk(item) ==
    /\ Truthy(item)
    /\ item.val.role \in {"user", "assistant"}
    /\ item.val.content.type = "string"

\* Array.prototype.slice(-n)
SliceLast(a, n) ==
    IF Len(a) > n THEN SubSeq(a, Len(a) - n + 1, Len(a)) ELSE a

\* validatedHistory after validation, the cap and the truncation of every
\* content; the empty sequence stands for null too.
ValidatedHistory(incoming) ==
    IF incoming.type = "array" /\ \A i \in 1..Len(incoming.val) : ItemOk(incoming.val[i])
    THEN LET mapped == [i \in 1..Len(incoming.val) |->
                           [role |-> incoming.val[i].val.role,
                            content |-> incoming.val[i].val.content.val]]
             capped == IF Len(mapped) > HistoryCap
                       THEN SliceLast(mapped, HistoryCap) ELSE mapped
         IN  [i \in 1..Len(capped) |->
                 [role |-> capped[i].role,
                  content |-> Slice0(capped[i].content, ContentCap)]]
    ELSE <<>>

\* validatedHistory.some(item => item.role === "user" &&
\*                               item.content.trim() === message)
HasLatestUser(validated, message) ==
    \E i \in 1..Len(validated) :
        validated[i].role = "user" /\ Trim(validated[i].content) = message

\* The messages sent to the model.
AssembleMessages(validated, message) ==
    IF Len(validated) > 0
    THEN IF ~HasLatestUser(validated, message)
         THEN Append(SystemMessages \o validated,
                     [role |-> "user", content |-> message])
         ELSE SystemMessages \o validated
    ELSE Append(SystemMessages, [role |-> "user", content |-> message])

\* data?.choices?.[0]?.message?.content of a parsed response body
RawReply(body) == IF body.kind = "completion" THEN body.content ELSE Undefined

ChatIdle == [pc |-> "idle"]

ChatResponse(status, out, passed, calls, upstream) ==
    [status |-> status, out |-> out, passed |-> passed, calls |-> calls,
     upstream |-> upstream]

\* No response of the model API was received.
NoUpstream == [received |-> FALSE, ok |-> FALSE, body |-> [kind |-> "none"]]

NoChatResponse == ChatResponse(0, <<>>, FALSE, 0, NoUpstream)

\* chatLimiter, then the handler up to the await of fetch: the 429 and 400
\* responses, the validation of the history, the assembly of the messages
\* and the call of fetch.
ChatRequest(body, history) ==
    /\ chat.pc = "idle"
    /\ hits' = IF hits < RateMax + 1 THEN hits + 1 ELSE hits
    /\ IF hits + 1 > RateMax
       THEN /\ cresp' = ChatResponse(429, <<>>, FALSE, 0, NoUpstream)
            /\ UNCHANGED chat
       ELSE IF MessageOf(body) = <<>>
       THEN /\ cresp' = ChatResponse(400, <<>>, FALSE, 0, NoUpstream)
            /\ UNCHANGED chat
       ELSE /\ chat' = [pc |-> "fetch",
                        message |-> MessageOf(body),
                        validatedHistory |-> ValidatedHistory(history),
                        messages |-> AssembleMessages(ValidatedHistory(history),
                                                      MessageOf(body)),
                        calls |-> 1]
            /\ UNCHANGED cresp
    /\ UNCHANGED <<finalVars, storeVars>>

\* await fetch(...) settles: a response arrives, or fetch rejects and the
\* catch block answers 500.
ChatFetch(arrived, ok, body) ==
    /\ chat.pc = "fetch"
    /\ IF arrived
       THEN /\ chat' = [pc |-> "json", calls |-> chat.calls,
                        groqRes |-> [received |-> TRUE, ok |-> ok,
                                     body |-> body]]
            /\ UNCHANGED cresp
       ELSE /\ chat' = ChatIdle
            /\ cresp' = ChatResponse(500, <<>>, TRUE, chat.calls, NoUpstream)
    /\ UNCHANGED hits
    /\ UNCHANGED <<finalVars, storeVars>>

\* await groqRes.json() settles: the rest of the handler.
ChatJson ==
    /\ chat.pc = "json"
    /\ chat' = ChatIdle
    /\ LET res == chat.groqRes
           rawReply == RawReply(res.body)
       IN  cresp' =
             IF res.body.kind = "notjson"
             THEN ChatResponse(500, <<>>, TRUE, chat.calls, res)
             ELSE IF ~res.ok
             THEN ChatResponse(502, <<>>, TRUE, chat.calls, res)
             ELSE IF ~Truthy(rawReply)
             THEN ChatResponse(502, <<>>, TRUE, chat.calls, res)
             ELSE ChatResponse(200,
                               finalizeReply(rawReply, DefaultMaxChars,
                                             DefaultMaxSentences),
                               TRUE, chat.calls, res)
    /\ UNCHANGED hits
    /\ UNCHANGED <<finalVars, storeVars>>

\* chatLimiter's window of 5 minutes ends.
WindowReset ==
    /\ hits > 0
    /\ hits' = 0
    /\ UNCHANGED <<chat, cresp>>
    /\ UNCHANGED <<finalVars, storeVars>>

-----------------------------------------------------------------------------
(* The inputs of finalizeReply *)

TailAlphabet == {"a", "A", " ", ".", "!"}

Tails == UNION {[1..k -> TailAlphabet] : k \in 0..MaxTail}

\* A run of letters exactly as long as the truncation threshold.
Pad == [i \in 1..StopThreshold |-> "a"]

\* "Hi there. Hi there! Bye."
ExampleDedup ==
    <<"H", "i", " ", "t", "h", "e", "r", "e", ".", " ",
      "H", "i", " ", "t", "h", "e", "r", "e", "!", " ",
      "B", "y", "e", ".">>

ExtraTexts ==
    {ExampleDedup,
     <<"\t", "a", "-", "?", "\n", " ", "A", "?">>,
     <<" ", "\t", "\n">>,
     <<"a", ".", " ", "-", ".", " ", "A", "!", " ", "b", "1", "?", " ", "c">>}

Texts ==
    {Str(p \o t) : p \in {<<>>, Pad}, t \in Tails}
      \cup {Str(t) : t \in ExtraTexts}
      \cup {NonString("null"), NonString("number"), NonString("object")}

MaxCharsChoices ==
    {-1, 0, 1, 2, 3, StopThreshold + 2, StopThreshold + 3, DefaultMaxChars}

MaxSentencesChoices == {-1, 0, 1, 2, DefaultMaxSentences}

-----------------------------------------------------------------------------
(* The chat requests and the responses of the model API *)

Hi == <<"h", "i">>

ChatBodies ==
    {[message |-> m, prompt |-> q, text |-> Undefined] :
        m \in {Undefined, Str(<<>>), Str(<<" ">>), Str(<<" ">> \o Hi), Str(Hi)},
        q \in {Undefined, Str(<<"y", "o">>)}}
      \cup {[message |-> Undefined, prompt |-> Undefined, text |-> Str(Hi)]}

Turn(role, content) == Obj([role |-> role, content |-> content])

HistoryItems ==
    {Turn("user", Str(Hi)), Turn("user", Str(<<" ">> \o Hi \o <<"\n">>)),
     Turn("assistant", Str(<<"y", "o">>)), Turn("system", Str(Hi)),
     Turn("user", Num(5)), Null}

Repeat(item, n) == [i \in 1..n |-> item]

\* A content longer than ContentCap characters.
LongContent == Hi \o <<" ">> \o Repeat("x", ContentCap)

Histories ==
    {Undefined, Str(Hi)}
      \cup {Arr(h) : h \in UNION {[1..n -> HistoryItems] : n \in 0..MaxHistory}}
      \cup {Arr(<<Turn("user", Str(Hi))>>
                  \o Repeat(Turn("assistant", Str(<<"y", "o">>)), n)) :
               n \in {HistoryCap - 1, HistoryCap}}
      \cup {Arr(<<Turn("user", Str(LongContent))>>)}

ResponseBodies ==
    {[kind |-> "notjson"], [kind |-> "error"]}
      \cup {[kind |-> "completion", content |-> c] :
               c \in {Str(ExampleDedup), Str(Hi), Str(<<" ">>), Str(<<>>),
                      Null, Obj([parts |-> <<>>])}}

-----------------------------------------------------------------------------
(* Specifications: one per part of the server *)

ChatQuiet ==
    /\ hits = 0
    /\ chat = ChatIdle
    /\ cresp = NoChatResponse

StoreQuiet ==
    /\ ADMIN_TOKEN = <<>>
    /\ doc = Absent
    /\ doc0 = Absent
    /\ clock = 0
    /\ req = [s \in Slots |-> Idle]
    /\ resp = NoResponse
    /\ started = 0
    /\ version = 0
    /\ appended = <<>>
    /\ overlap = FALSE
    /\ failed = FALSE

FinalQuiet ==
    /\ fpc = "done"
    /\ text = NonString("null")
    /\ maxChars = DefaultMaxChars
    /\ maxSentences = DefaultMaxSentences
    /\ fin = NoLocals

\* The server's time at process start.
ClockStart == 9

InitStoreWith(tokens, docs) ==
    /\ FinalQuiet
    /\ ChatQuiet
    /\ ADMIN_TOKEN \in tokens
    /\ doc \in docs
    /\ doc0 = doc
    /\ clock = ClockStart
    /\ req = [s \in Slots |-> Idle]
    /\ resp = NoResponse
    /\ started = 0
    /\ version = 0
    /\ appended = <<>>
    /\ overlap = FALSE
    /\ failed = FALSE

\* The lead store under concurrent match-lead requests.
InitStore ==
    InitStoreWith({SecretK}, {Absent, ObjectDoc, ArrayDoc(<<StoredValid>>)})

NextStore ==
    \E s \in Slots :
        \/ \E body \in {BodyPlain, BodyMessy} \cup InvalidBodies,
              mkdirOk \in BOOLEAN :
              LeadRequest(s, body, 1, mkdirOk)
        \/ \E ioOk \in BOOLEAN : LeadRead(s, ioOk)
        \/ \E outcome \in WriteOutcomes : LeadWrite(s, outcome)

SpecStore == InitStore /\ [][NextStore]_vars

\* The lead store under requests that do not overlap (all are served in slot
\* 1): match-lead requests at the same or at a later time, and authorized
\* reads of the leads.
InitSerial == InitStoreWith({SecretK}, InitDocs)

NextSerial ==
    \/ \E body \in Bodies, dt \in {0, 1}, mkdirOk \in BOOLEAN :
          LeadRequest(1, body, dt, mkdirOk)
    \/ \E ioOk \in BOOLEAN : LeadRead(1, ioOk)
    \/ \E outcome \in WriteOutcomes : LeadWrite(1, outcome)
    \/ AdminRequest(1, "leads", Str(SecretK))
    \/ \E ioOk \in BOOLEAN : AdminRead(1, ioOk)

SpecSerial == InitSerial /\ [][NextSerial]_vars

\* The admin endpoints under every configured secret and header.
InitAdmin == InitStoreWith(AdminTokens, InitDocs)

NextAdmin ==
    \E s \in Slots :
        \/ \E e \in Endpoints, h \in Headers : AdminRequest(s, e, h)
        \/ \E ioOk \in BOOLEAN : AdminRead(s, ioOk)

SpecAdmin == InitAdmin /\ [][NextAdmin]_vars

InitFinal ==
    /\ StoreQuiet
    /\ ChatQuiet
    /\ fpc = "input"
    /\ text \in Texts
    /\ maxChars \in MaxCharsChoices
    /\ maxSentences \in MaxSentencesChoices
    /\ fin = NoLocals

\* One call finalizeReply(text, maxChars, maxSentences).
Finalize ==
    /\ fpc = "input"
    /\ fpc' = "done"
    /\ fin' = FinalizeLocals(text, maxChars, maxSentences)
    /\ UNCHANGED <<text, maxChars, maxSentences>>
    /\ UNCHANGED <<storeVars, chatVars>>

NextFinal == Finalize

SpecFinal == InitFinal /\ [][NextFinal]_vars

InitChat ==
    /\ FinalQuiet
    /\ StoreQuiet
    /\ ChatQuiet

NextChat ==
    \/ \E body \in ChatBodies, history \in Histories :
          ChatRequest(body, history)
    \/ \E arrived \in BOOLEAN, ok \in BOOLEAN, body \in ResponseBodies :
          ChatFetch(arrived, ok, body)
    \/ ChatJson
    \/ WindowReset

SpecChat == InitChat /\ [][NextChat]_vars

-----------------------------------------------------------------------------
(* Claims about finalizeReply (checked under SpecFinal) *)

HasStop(s) == \E i \in 1..Len(s) : IsStop(s[i])

\* The call ran the whole function: neither early return was taken.
Finalized == fpc = "done" /\ fin.normalized # <<>>

\* C1: whatever the text (empty, whitespace-only, non-string, without a
\* terminator) and whatever maxChars and maxSentences, finalizeReply returns
\* the empty string or a string whose last character is '.', '!' or '?'.
C1_EndsInTerminatorOrEmpty ==
    fpc = "done" =>
        \/ fin.reply = <<>>
        \/ fin.reply[Len(fin.reply)] \in Terminators

\* C1's case: a text without any terminator was finalized to a non-empty reply.
C1_Witness ==
    /\ Finalized
    /\ maxChars = DefaultMaxChars
    /\ maxSentences = DefaultMaxSentences
    /\ ~HasStop(text.val)
    /\ fin.reply # <<>>

\* C3: for maxChars >= 0 the reply is at most maxChars long, except that it
\* is exactly maxChars+1 long only when it is the truncated candidate, which
\* holds no terminator past position 0, with a '.' appended; it is never
\* longer than maxChars+1.
C3_LengthBound ==
    (fpc = "done" /\ maxChars >= 0) =>
        /\ Len(fin.reply) <= maxChars + 1
        /\ Len(fin.reply) = maxChars + 1 =>
              /\ fin.reply = fin.truncated \o <<".">>
              /\ LastStop(fin.truncated) <= 0
              /\ ~EndsInStop(fin.truncated)

\* C3's case: a candidate longer than maxChars was truncated, no terminator
\* was found and the appended '.' made the reply maxChars+1 long.
C3_Witness ==
    /\ Finalized
    /\ maxChars >= 2
    /\ Len(fin.selected) > maxChars
    /\ Len(fin.reply) = maxChars + 1

\* C5: when the candidate after selection and truncation does not end in a
\* terminator, a terminator at any position (position 0 included) makes the
\* reply the candidate cut just after its right-most terminator, and only a
\* candidate without any terminator gets a '.' appended.
C5_CutAtAnyTerminator ==
    (Finalized /\ ~EndsInStop(fin.truncated)) =>
        IF HasStop(fin.truncated)
        THEN fin.reply = Slice0(fin.truncated, LastStop(fin.truncated) + 1)
        ELSE fin.reply = fin.truncated \o <<".">>

\* The segments parts[i], i satisfying Keep, trimmed, in their order.
Survivors(parts, Keep(_)) ==
    LET kept == SelectSeq([i \in 1..Len(parts) |-> i], Keep)
    IN  [k \in 1..Len(kept) |-> Trim(parts[kept[k]])]

IsLaterDuplicate(parts, i) ==
    \E j \in 1..(i - 1) : SentenceKey(parts[j]) = SentenceKey(parts[i])

\* "Hi there." and "Bye."
ExampleSurvivors ==
    << <<"H", "i", " ", "t", "h", "e", "r", "e", ".">>,
       <<"B", "y", "e", ".">> >>

\* C6 as stated: the surviving sentences are the terminator-ended segments
\* with later duplicates (same normalized key) removed, and no segment is
\* discarded for any other reason.
C6_OnlyDuplicatesDiscarded ==
    Finalized =>
        fin.uniqueSentences =
            Survivors(fin.sentenceParts,
                      LAMBDA i : ~IsLaterDuplicate(fin.sentenceParts, i))

\* C6 as amended: the surviving sentences are the terminator-ended segments
\* whose normalized key is not empty, with later duplicates removed; first
\* occurrences are kept in their original order, and "Hi there. Hi there!
\* Bye." yields exactly "Hi there." and "Bye.".
C6_DuplicatesAndEmptyKeysDiscarded ==
    Finalized =>
        /\ fin.uniqueSentences =
              Survivors(fin.sentenceParts,
                        LAMBDA i : /\ SentenceKey(fin.sentenceParts[i]) # <<>>
                                   /\ ~IsLaterDuplicate(fin.sentenceParts, i))
        /\ text = Str(ExampleDedup) => fin.uniqueSentences = ExampleSurvivors

\* C6's case: one call in which a later duplicate was removed, a segment
\* with an empty key was dropped, and two sentences or more survived.
C6_Witness ==
    /\ Finalized
    /\ \E i \in 1..Len(fin.sentenceParts) :
          SentenceKey(fin.sentenceParts[i]) = <<>>
    /\ \E i \in 1..Len(fin.sentenceParts) :
          /\ SentenceKey(fin.sentenceParts[i]) # <<>>
          /\ IsLaterDuplicate(fin.sentenceParts, i)
    /\ Len(fin.uniqueSentences) >= 2

-----------------------------------------------------------------------------
(* Claims about the lead store and POST /api/match-lead *)

Range(f) == {f[i] : i \in DOMAIN f}

\* C2: two valid POST /api/match-lead requests whose saveMatchLead calls both
\* read the document before either writes are both answered 200 {ok: true},
\* and the document the later write leaves holds what both read plus the
\* later writer's lead only: the earlier writer's lead is lost.
C2_LostUpdate ==
    \A i, j \in 1..Len(appended) :
        ( /\ i < j
          /\ appended[i].readVersion = appended[j].readVersion
          /\ version = appended[j].writeVersion )
        => /\ doc.state = "array"
           /\ doc.leads = Append(appended[j].snapshot,
                                 JsonLead(appended[j].lead))

\* C2's case: both requests read the same document, both were answered 200,
\* and the persisted document holds the second lead and not the first.
C2_Witness ==
    /\ Len(appended) = 2
    /\ appended[1].readVersion = appended[2].readVersion
    /\ version = appended[2].writeVersion
    /\ resp.kind = "lead" /\ resp.status = 200
    /\ JsonLead(appended[2].lead) \in Range(doc.leads)
    /\ JsonLead(appended[1].lead) \notin Range(doc.leads)

\* The request passes the validations: a pattern-valid email, a consent that
\* is given, and q1..q4 integers in [1,5].
RequestValid(body) ==
    /\ body.email.type = "string"
    /\ EmailOk(toLowerCase(Trim(body.email.val)))
    /\ body.consent \notin {Undefined, Null, Bool(FALSE), Str(<<>>)}
    /\ body.answers.type = "object"
    /\ \A k \in AnswerKeys :
          LET n == ToNumber(body.answers.val[k])
          IN  n.type = "number" /\ n.val \in 1..5

\* A stored lead as the handler makes them.
StoredOk(lead) ==
    /\ DOMAIN lead = {"email", "consent", "answers", "score", "percentage",
                      "createdAt", "source"}
    /\ EmailOk(lead.email)
    /\ lead.consent = TRUE
    /\ \A k \in AnswerKeys : lead.answers[k] \in 1..5
    /\ \E t \in 0..clock : lead.createdAt = toISOString(t)
    /\ lead.source = "match-form"

DocValid(d) ==
    \/ d.state = "absent"
    \/ d.state = "array" /\ \A i \in 1..Len(d.leads) : StoredOk(d.leads[i])

C7_State ==
    /\ resp.kind = "lead" => (resp.status = 400 <=> ~RequestValid(resp.input))
    /\ \A s \in Slots : Appending(s) => RequestValid(req[s].input)
    /\ DocValid(doc0) => (doc.state = "array" => DocValid(doc))

C7_Step ==
    /\ doc' # doc =>
          /\ resp'.kind = "lead"
          /\ resp'.status \in {200, 500}
          /\ RequestValid(resp'.input)
    /\ (started' # started /\ resp'.status = 400) => doc' = doc

\* C7 as amended: a POST /api/match-lead request changes the persisted
\* document only when it passes all validations, which are made on the
\* converted values: a request whose trimmed, lowercased email does not match
\* the pattern, whose consent is falsy or one of whose answers q1..q4 does
\* not convert (Number) to an integer in [1,5] is answered 400 and leaves the
\* document unchanged, every other request is not answered 400, and from an
\* absent or valid document every stored lead has a pattern-valid email,
\* consent true, q1..q4 integers in [1,5], a createdAt the server assigned
\* and the source "match-form".
C7_OnlyValidatedLeadsStored == []C7_State /\ [][C7_Step]_vars

\* The answers as the request gives them are integers in [1,5]: numbers, not
\* values that convert to one.
AnswersAreIntegers(body) ==
    /\ body.answers.type = "object"
    /\ \A k \in AnswerKeys :
          /\ body.answers.val[k].type = "number"
          /\ body.answers.val[k].val \in 1..5

\* C7 as stated: a request one of whose answers q1..q4 is not an integer in
\* [1,5] is answered 400.
C7_NonIntegerAnswerIs400 ==
    (resp.kind = "lead" /\ ~AnswersAreIntegers(resp.input)) => resp.status = 400

\* C7's case: a lead whose answers were given as values that convert to
\* integers was appended, and a later request without consent is answered
\* 400 while the document holds that lead.
C7_Witness ==
    /\ resp.kind = "lead" /\ resp.status = 400
    /\ resp.input.consent = Bool(FALSE)
    /\ EmailOk(toLowerCase(Trim(resp.input.email.val)))
    /\ doc.state = "array"
    /\ \E i \in 1..Len(appended), t \in 0..clock :
          /\ appended[i].lead = NewLead(BodyMessy, t)
          /\ JsonLead(appended[i].lead) \in Range(doc.leads)

\* req.headers["x-admin-token"] as text: an absent header is the empty string.
HeaderText(h) == IF h.type = "string" THEN h.val ELSE <<>>

AdminResponse == resp.kind \in Endpoints

\* A 401 response carries the error text only and was made without reading
\* the lead store.
NothingLeaked ==
    resp.status = 401 =>
        /\ ~resp.fileRead
        /\ resp.out = [error |-> "Unauthorized"]

\* C9 as stated: an admin request is authorized iff the configured secret is
\* not empty and the x-admin-token header exactly equals it; every other
\* request receives 401 without the lead store being read and without lead
\* data.
C9_ExactHeaderAuthorizes ==
    AdminResponse =>
        /\ resp.status # 401 <=>
              (ADMIN_TOKEN # <<>> /\ resp.input = Str(ADMIN_TOKEN))
        /\ NothingLeaked

\* C9 as amended: an admin request is authorized iff the configured secret is
\* not empty and the x-admin-token header, with an absent header taken as the
\* empty string and surrounding whitespace trimmed, equals it; every other
\* request receives 401 without the lead store being read and without lead
\* data, and only authorized requests reach the read, whatever was answered
\* before.
C9_TrimmedHeaderAuthorizes ==
    /\ AdminResponse =>
          /\ resp.status # 401 <=>
                (ADMIN_TOKEN # <<>> /\ Trim(HeaderText(resp.input)) = ADMIN_TOKEN)
          /\ NothingLeaked
    /\ \A s \in Slots :
          req[s].pc = "adminread" =>
              (ADMIN_TOKEN # <<>> /\ Trim(HeaderText(req[s].input)) = ADMIN_TOKEN)

\* C9's case: a header that differs from the secret by surrounding whitespace
\* was authorized and the leads were read for it.
C9_Witness ==
    /\ AdminResponse
    /\ resp.status = 200
    /\ resp.fileRead
    /\ resp.input # Str(ADMIN_TOKEN)

Count(seq, x) == Cardinality({i \in 1..Len(seq) : seq[i] = x})

IsPermutation(a, b) ==
    /\ Len(a) = Len(b)
    /\ \A i \in 1..Len(a) : Count(a, a[i]) = Count(b, a[i])

RECURSIVE StringLess(_, _, _)
\* a < b as JavaScript compares strings of digits
StringLess(a, b, i) ==
    IF i > Len(b) THEN FALSE
    ELSE IF i > Len(a) THEN TRUE
    ELSE IF a[i] = b[i] THEN StringLess(a, b, i + 1)
    ELSE DigitValue(a[i]) < DigitValue(b[i])

\* Descending by createdAt, a missing createdAt being the empty string.
SortedDescending(leads) ==
    \A i, j \in 1..Len(leads) :
        i < j => ~StringLess(CreatedKey(leads[i]), CreatedKey(leads[j]), 1)

AppendedLeads == [i \in 1..Len(appended) |-> appended[i].lead]

\* C10: after non-overlapping successful append calls from an absent
\* document, readMatchLeads returns exactly the appended leads, each once
\* and with its fields unchanged, in descending order of createdAt.
C10_ReadReturnsAppended ==
    ( /\ doc0 = Absent /\ ~failed /\ ~overlap
      /\ resp.kind = "leads" /\ resp.status = 200 )
    => /\ IsPermutation(resp.out.leads, AppendedLeads)
       /\ SortedDescending(resp.out.leads)

-----------------------------------------------------------------------------
(* Claims about POST /api/chat (checked under SpecChat) *)

\* The new user message is to be left out: the last accepted history entry is
\* a user turn whose trimmed content is the message.
LastIsSameUserTurn(validated, message) ==
    /\ Len(validated) > 0
    /\ validated[Len(validated)].role = "user"
    /\ Trim(validated[Len(validated)].content) = message

\* C4: the assembled messages are the two system messages, the accepted
\* history and the new user message, which is omitted if and only if the last
\* accepted history entry is a user turn whose trimmed content equals the
\* message; a matching user turn elsewhere in the history does not omit it.
C4_OmittedOnlyForLastTurn ==
    chat.pc = "fetch" =>
        chat.messages =
            SystemMessages \o chat.validatedHistory
              \o (IF LastIsSameUserTurn(chat.validatedHistory, chat.message)
                  THEN <<>>
                  ELSE << [role |-> "user", content |-> chat.message] >>)

\* The response of the model API holds no reply text.
NoReplyText(upstream) ==
    \/ upstream.body.kind # "completion"
    \/ ~Truthy(upstream.body.content)

\* C8: a chat request that passes the message check calls the model API
\* exactly once; a non-success status, or a success without extractable reply
\* text, is answered 502; 200 is answered only when reply text was extracted,
\* with finalizeReply of that text as the reply.
C8_UpstreamFailureIs502 ==
    (cresp.passed /\ cresp.status # 0) =>
        /\ cresp.calls = 1
        /\ (cresp.upstream.received /\ ~cresp.upstream.ok) => cresp.status = 502
        /\ (cresp.upstream.received /\ cresp.upstream.ok
              /\ NoReplyText(cresp.upstream)) => cresp.status = 502
        /\ cresp.status = 200 =>
              /\ cresp.upstream.received
              /\ ~NoReplyText(cresp.upstream)
              /\ cresp.out = finalizeReply(cresp.upstream.body.content,
                                           DefaultMaxChars, DefaultMaxSentences)

====
